---- MODULE Spec2Model ----
(***************************************************************************)
(* Model of src/embedding/embeddings.py: the pretrained-embedding wrappers *)
(* PretrainedEmbedding (forward, embed_token, get_history_emb,             *)
(* get_columns_emb with its column cache), GloveEmbedding (static          *)
(* vocabulary loaded from a file) and LaserEmbedding (vocabulary that      *)
(* grows on demand through an external embedder).                          *)
(*                                                                         *)
(* A Python str is a sequence of one-character strings; a tensor is a      *)
(* nested sequence; Python index i is TLA+ index i+1.  A float produced by *)
(* a division is the unreduced fraction <<numerator, denominator>>, a      *)
(* zero denominator standing for NaN.                                      *)
(***************************************************************************)
EXTENDS Integers, Sequences, FiniteSets, TLC

VARIABLES
  backend,          \* "glove" or "laser": the class of the instance
  file,             \* the lines of the vocabulary file GloVe was loaded from
  word2idx,         \* self.word2idx
  vectors,          \* self.vectors (and, for GloVe, the embedding weight)
  num_embeddings,   \* self.num_embeddings
  embedding_dim,    \* self.embedding_dim
  use_column_cache, \* self.use_column_cache
  column_cache,     \* self.column_cache
  embedder_calls,   \* per token, the calls of self.embedder made for it
  ret,              \* the last call: its arguments and what it returned
  prev              \* the call before it, when that was get_columns_emb

vars == <<backend, file, word2idx, vectors, num_embeddings, embedding_dim,
          use_column_cache, column_cache, embedder_calls, ret, prev>>

(* ------------------------------ bounds -------------------------------- *)

\* dimension of an embedding vector in the model
Dim == 2
\* most lines in a vocabulary file
MaxLines == 2

(* ------------------------------ strings ------------------------------- *)

\* str.lower over the model's alphabet
Lower(s) == [i \in 1..Len(s) |-> IF s[i] = "A" THEN "a" ELSE s[i]]

\* str.split(sep): the pieces between separators, empty pieces kept
RECURSIVE Split(_, _)
Split(s, sep) ==
  IF \A i \in 1..Len(s) : s[i] # sep
  THEN <<s>>
  ELSE LET k == CHOOSE i \in 1..Len(s) :
                  s[i] = sep /\ \A j \in 1..(i-1) : s[j] # sep
       IN  <<SubSeq(s, 1, k-1)>> \o Split(SubSeq(s, k+1, Len(s)), sep)

NonEmpty(s) == s # <<>>

\* str.split() without argument: split on whitespace, empty pieces dropped
SplitWs(s) == SelectSeq(Split(s, " "), NonEmpty)

\* nltk word_tokenize on the model's alphabet (letters, "_" and blanks):
\* the words between blanks
word_tokenize(s) == SplitWs(s)

\* ' '.join(words)
RECURSIVE Join(_)
Join(ws) ==
  IF ws = <<>> THEN <<>>
  ELSE IF Len(ws) = 1 THEN ws[1]
  ELSE ws[1] \o <<" ">> \o Join(Tail(ws))

(* ----------------------------- numerics ------------------------------- *)

\* max(xs, default=0): an empty list is not an error
MaxDefaults(xs) == FALSE

\* max(xs) raises ValueError on an empty list
MaxRaises(xs) == Len(xs) = 0

RECURSIVE MaxOf(_)
\* max(xs) of a list of naturals that is not empty
MaxOf(xs) ==
  IF Len(xs) = 0 THEN 0
  ELSE IF Len(xs) = 1 THEN xs[1]
  ELSE LET m == MaxOf(Tail(xs)) IN IF xs[1] >= m THEN xs[1] ELSE m

Min(a, b) == IF a <= b THEN a ELSE b

\* a Python list built by a comprehension: the elements are computed once
List(f) == f \o <<>>

Zeros(n) == [d \in 1..n |-> 0]

\* torch.sum over the sequence dimension of one sentence's rows
RECURSIVE SumRows(_, _)
SumRows(rows, n) ==
  IF rows = <<>> THEN Zeros(n)
  ELSE LET r == SumRows(Tail(rows), n)
       IN  [d \in 1..n |-> rows[1][d] + r[d]]

\* fractions <<num, den>>
FracAdd(x, y) == <<x[1] * y[2] + y[1] * x[2], x[2] * y[2]>>

RECURSIVE FracSum(_)
FracSum(xs) ==
  IF xs = <<>> THEN <<0, 1>> ELSE FracAdd(xs[1], FracSum(Tail(xs)))

\* torch.mean(torch.stack(embs), dim=0) of a non-empty list of rows of
\* fractions
MeanStack(embs, n) ==
  [d \in 1..n |->
     LET s == FracSum([k \in 1..Len(embs) |-> embs[k][d]])
     IN  <<s[1], s[2] * Len(embs)>>]

(* ------------------------- GloveEmbedding ----------------------------- *)

\* the '<unknown>' key, one symbol of the model's alphabet
UNKNOWN == <<"<unknown>">>

\* the vector length a line must have to be kept
ExpectedDim == Dim

GoodVec(c) == [d \in 1..Dim |-> 10 * c + d]
BadVec(c) == [d \in 1..(Dim - 1) |-> 10 * c + d]

\* the lines a vocabulary file is made of, already split into the token
\* (line[0]) and the values after it (line[1:])
FileLines ==
  { [token |-> <<"a">>, vector |-> GoodVec(1)],
    [token |-> <<"a">>, vector |-> GoodVec(2)],
    [token |-> <<"b">>, vector |-> GoodVec(3)],
    [token |-> <<"b">>, vector |-> BadVec(4)],
    [token |-> UNKNOWN, vector |-> GoodVec(5)] }

Files == UNION { [1..n -> FileLines] : n \in 0..MaxLines }

EmptyMap == [x \in {} |-> 0]

\* the loop over enumerate(f, 1): acc is (word2idx, vectors) so far
RECURSIVE LoadLines(_, _, _)
LoadLines(lines, idx, acc) ==
  IF idx > Len(lines) THEN acc
  ELSE LET token == lines[idx].token
           vector == lines[idx].vector
       IN  IF Len(vector) = ExpectedDim /\ token \notin DOMAIN acc.word2idx
           THEN LoadLines(lines, idx + 1,
                          [word2idx |-> (token :> idx) @@ acc.word2idx,
                           vectors |-> Append(acc.vectors, vector)])
           ELSE LoadLines(lines, idx + 1, acc)

\* word2idx and vectors as GloveEmbedding.__init__ hands them to the base
\* class, for a lines that has at least one kept line
GloveLoad(lines) ==
  LET l == LoadLines(lines, 1, [word2idx |-> EmptyMap, vectors |-> <<>>])
  IN  [word2idx |-> (UNKNOWN :> 0) @@ l.word2idx,
       vectors |-> <<Zeros(Len(l.vectors[1]))>> \o l.vectors]

\* the constructor returns: vectors[0] exists, and the weight of
\* Embedding(num_embeddings, embedding_dim) can take a copy of vectors
GloveConstructs(lines) ==
  /\ LoadLines(lines, 1, [word2idx |-> EmptyMap, vectors |-> <<>>]).vectors
       # <<>>
  /\ Cardinality(DOMAIN GloveLoad(lines).word2idx)
       = Len(GloveLoad(lines).vectors)

(* ------------------------- results of a call -------------------------- *)

NoCall ==
  [op |-> "none", args |-> <<>>, mean |-> FALSE, raised |-> FALSE,
   emb |-> <<>>, shape |-> <<>>, lengths |-> <<>>, indicies |-> <<>>,
   col_name_lengths |-> <<>>, calls |-> 0, hits |-> <<>>]

\* what a call that raised leaves to be seen
Raised == [raised |-> TRUE, emb |-> <<>>, shape |-> <<>>,
           lengths |-> <<>>, indicies |-> <<>>]

(* --------------------- PretrainedEmbedding.forward -------------------- *)

\* dict.get(key, default)
Get(map, key, default) == IF key \in DOMAIN map THEN map[key] ELSE default

\* sum(word_embeddings, dim=1) / tensor(lenghts): a [B, D] tensor divided
\* by a [B] tensor, which broadcasting aligns with the LAST dimension
DivideByLengths(sums, lenghts, B, D) ==
  IF B = 1
  THEN [raised |-> FALSE,
        emb |-> [i \in 1..B |-> [d \in 1..D |-> <<sums[i][d], lenghts[1]>>]]]
  ELSE IF B = D
  THEN [raised |-> FALSE,
        emb |-> [i \in 1..B |-> [d \in 1..D |-> <<sums[i][d], lenghts[d]>>]]]
  ELSE [raised |-> TRUE, emb |-> <<>>]

\* forward of the base class on a list of sentences, over the table
\* (w2i, vecs, n): the returned (word_embeddings, lenghts) or the raise
Forward(sentences, mean_sequence, w2i, vecs, n, D) ==
  LET lowered == List([i \in 1..Len(sentences) |-> Lower(sentences[i])])
      batch_size == Len(lowered)
      sentences_words ==
        List([i \in 1..batch_size |-> word_tokenize(lowered[i])])
      lenghts == List([i \in 1..batch_size |-> Len(sentences_words[i])])
  IN
  IF MaxRaises(lenghts) THEN Raised
  ELSE
    LET max_len == MaxOf(lenghts)
        indicies ==
          List([i \in 1..batch_size |->
             List([j \in 1..max_len |->
                IF j <= lenghts[i] THEN Get(w2i, sentences_words[i][j], 0)
                ELSE 0])])
    IN
    IF \E i \in 1..batch_size : \E j \in 1..max_len : indicies[i][j] >= n
    THEN Raised
    ELSE
      LET word_embeddings ==
            List([i \in 1..batch_size |->
               List([j \in 1..max_len |-> vecs[indicies[i][j] + 1]])])
      IN
      IF ~mean_sequence
      THEN [raised |-> FALSE, emb |-> word_embeddings,
            shape |-> <<batch_size, max_len, D>>,
            lengths |-> lenghts, indicies |-> indicies]
      ELSE
        LET sums == List([i \in 1..batch_size |->
                            SumRows(word_embeddings[i], D)])
            q == DivideByLengths(sums, lenghts, batch_size, D)
        IN  IF q.raised THEN Raised
            ELSE [raised |-> FALSE, emb |-> q.emb,
                  shape |-> <<batch_size, D>>,
                  lengths |-> lenghts, indicies |-> indicies]

(* -------------------- PretrainedEmbedding.embed_token ----------------- *)

\* embed_token: mean over the words of the means over each word's
\* non-empty '_'-separated elements, every element embedded by
\* self(element, mean_sequence=True); a row of D fractions
EmbedToken(token, w2i, vecs, n, D) ==
  LET words == SplitWs(token)
      elements == List([w \in 1..Len(words) |->
                          SelectSeq(Split(words[w], "_"), NonEmpty)])
      fw == List([w \in 1..Len(words) |->
               List([k \in 1..Len(elements[w]) |->
                  Forward(<<elements[w][k]>>, TRUE, w2i, vecs, n, D)])])
      wordRaises(w) ==
        \/ elements[w] = <<>>
        \/ \E k \in 1..Len(elements[w]) : fw[w][k].raised
      wordEmb(w) ==
        MeanStack([k \in 1..Len(elements[w]) |-> fw[w][k].emb[1]], D)
  IN
  IF words = <<>> \/ \E w \in 1..Len(words) : wordRaises(w)
  THEN [raised |-> TRUE, emb |-> <<>>]
  ELSE [raised |-> FALSE,
        emb |-> MeanStack([w \in 1..Len(words) |-> wordEmb(w)], D)]

(* ------------------ PretrainedEmbedding.get_history_emb --------------- *)

GetHistoryEmbResult(histories, w2i, vecs, n, D) ==
  LET batch_size == Len(histories)
      lengths == List([i \in 1..batch_size |-> Len(histories[i])])
  IN
  IF MaxRaises(lengths) THEN Raised
  ELSE
    LET max_len == MaxOf(lengths)
        tok == List([i \in 1..batch_size |->
                  List([j \in 1..lengths[i] |->
                     EmbedToken(histories[i][j], w2i, vecs, n, D)])])
    IN
    IF \E i \in 1..batch_size : \E j \in 1..lengths[i] : tok[i][j].raised
    THEN Raised
    ELSE [raised |-> FALSE,
          emb |-> [i \in 1..batch_size |->
                     [j \in 1..max_len |->
                        IF j <= lengths[i] THEN tok[i][j].emb
                        ELSE [d \in 1..D |-> <<0, 1>>]]],
          shape |-> <<batch_size, max_len, D>>,
          lengths |-> lengths, indicies |-> <<>>]

(* ------------------ PretrainedEmbedding.get_columns_emb --------------- *)

\* str(db) of a list of strings: "['a b', 'b']"
RECURSIVE ReprItems(_)
ReprItems(db) ==
  IF db = <<>> THEN <<>>
  ELSE IF Len(db) = 1 THEN <<"'">> \o db[1] \o <<"'">>
  ELSE <<"'">> \o db[1] \o <<"'", ",", " ">> \o ReprItems(Tail(db))

\* a key made of the number of columns only
PyStrOfLen(db) == IF Len(db) = 1 THEN <<"1">> ELSE <<"n">>

PyStr(db) == <<"[">> \o ReprItems(db) \o <<"]">>

\* the miss path for one batch item, fw[j] being what self(column)
\* returned for column j: the embeddings written into a zero
\* [max_len, max_col_name_len, D] slice, or the raise of a forward call
MissSlice(db, fw, max_len, max_col_name_len, D) ==
  IF \E j \in 1..Len(db) : fw[j].raised
  THEN [raised |-> TRUE, emb |-> <<>>, lens |-> <<>>]
  ELSE [raised |-> FALSE,
        emb |-> [j \in 1..max_len |->
                   [k \in 1..max_col_name_len |->
                      IF j <= Len(db) /\ k <= fw[j].lengths[1]
                      THEN fw[j].emb[1][k] ELSE Zeros(D)]],
        lens |-> [j \in 1..max_len |->
                    IF j <= Len(db) THEN fw[j].lengths[1] ELSE 0]]

\* the miss path for one batch item: every column embedded by
\* self(column)
MissItem(db, max_len, max_col_name_len, w2i, vecs, n, D) ==
  MissSlice(db,
            List([j \in 1..Len(db) |->
                    Forward(<<db[j]>>, FALSE, w2i, vecs, n, D)]),
            max_len, max_col_name_len, D)

\* a hit path that copies the cached embeddings and leaves the token
\* counts of the item at zero
HitItemNoLengths(cached, max_len, max_col_name_len, D) ==
  LET min_size1 == Min(Len(cached.emb), max_len)
      min_size2 == Min(Len(cached.emb[1]), max_col_name_len)
  IN  [emb |-> [j \in 1..max_len |->
                  [k \in 1..max_col_name_len |->
                     IF j <= min_size1 /\ k <= min_size2
                     THEN cached.emb[j][k] ELSE Zeros(D)]],
       lens |-> [j \in 1..max_len |-> 0]]

\* the hit path for one batch item: the cached slice copied into a zero
\* [max_len, max_col_name_len, D] slice up to the smaller of both sizes
HitItem(cached, max_len, max_col_name_len, D) ==
  LET min_size1 == Min(Len(cached.emb), max_len)
      min_size2 == Min(Len(cached.emb[1]), max_col_name_len)
  IN  [emb |-> [j \in 1..max_len |->
                  [k \in 1..max_col_name_len |->
                     IF j <= min_size1 /\ k <= min_size2
                     THEN cached.emb[j][k] ELSE Zeros(D)]],
       lens |-> [j \in 1..max_len |->
                   IF j <= min_size1
                   THEN Min(cached.lengths[j], max_col_name_len) ELSE 0]]

\* the loop's state after an item h served from the cache
AfterHit(acc, h) ==
  [acc EXCEPT !.emb = Append(@, h.emb),
              !.lens = Append(@, h.lens),
              !.hits = Append(@, TRUE)]

\* the loop's state after an item m computed by the miss path: the raise
\* of a forward call ends the loop, otherwise the item's slice is written
\* and, with the cache enabled, stored under the item's key
AfterMiss(acc, m, key, columnCount, useCache) ==
  IF m.raised THEN [acc EXCEPT !.raised = TRUE]
  ELSE [acc EXCEPT
          !.emb = Append(@, m.emb),
          !.lens = Append(@, m.lens),
          !.hits = Append(@, FALSE),
          !.calls = @ + columnCount,
          !.cache = IF useCache
                    THEN (key :> [emb |-> m.emb, lengths |-> m.lens]) @@ @
                    ELSE @]

\* the loop over the batch items from item i on; acc carries the cache,
\* the slices written so far, the number of self(column) calls and the
\* items served from the cache
RECURSIVE ColumnsLoop(_, _, _, _, _, _, _, _, _, _)
ColumnsLoop(joined, i, acc, max_len, max_col_name_len, useCache, w2i, vecs, n, D) ==
  IF i > Len(joined) \/ acc.raised THEN acc
  ELSE IF PyStr(joined[i]) \in DOMAIN acc.cache
  THEN ColumnsLoop(joined, i + 1,
                   AfterHit(acc, HitItem(acc.cache[PyStr(joined[i])],
                                         max_len, max_col_name_len, D)),
                   max_len, max_col_name_len, useCache, w2i, vecs, n, D)
  ELSE ColumnsLoop(joined, i + 1,
                   AfterMiss(acc,
                             MissItem(joined[i], max_len, max_col_name_len,
                                      w2i, vecs, n, D),
                             PyStr(joined[i]), Len(joined[i]), useCache),
                   max_len, max_col_name_len, useCache, w2i, vecs, n, D)

\* what get_columns_emb returns once the loop has ended in state r
ColumnsOutcome(r, batch_size, max_len, max_col_name_len, lengths, D) ==
  IF r.raised
  THEN [raised |-> TRUE, cache |-> r.cache, emb |-> <<>>, lens |-> <<>>,
        hits |-> <<>>, calls |-> r.calls, shape |-> <<>>, lengths |-> <<>>]
  ELSE [raised |-> FALSE, cache |-> r.cache, emb |-> r.emb,
        lens |-> r.lens, hits |-> r.hits, calls |-> r.calls,
        shape |-> <<batch_size, max_len, max_col_name_len, D>>,
        lengths |-> lengths]

\* get_columns_emb as a whole: the result and the cache it leaves
GetColumnsEmbResult(columns, cache, useCache, w2i, vecs, n, D) ==
  LET batch_size == Len(columns)
      lengths == List([i \in 1..batch_size |-> Len(columns[i])])
      columns_joined ==
        List([i \in 1..batch_size |->
           List([j \in 1..Len(columns[i]) |-> Join(columns[i][j])])])
      tokens ==
        List([i \in 1..batch_size |->
           List([j \in 1..Len(columns[i]) |->
              Len(word_tokenize(columns_joined[i][j]))])])
      failed == [raised |-> TRUE, cache |-> cache, emb |-> <<>>,
                 lens |-> <<>>, hits |-> <<>>, calls |-> 0,
                 shape |-> <<>>, lengths |-> <<>>]
  IN
  IF MaxRaises(lengths) THEN failed
  ELSE IF \E i \in 1..batch_size : MaxRaises(tokens[i]) THEN failed
  ELSE
    LET max_len == MaxOf(lengths)
        max_col_name_len ==
          MaxOf([i \in 1..batch_size |-> MaxOf(tokens[i])])
    IN  ColumnsOutcome(
          ColumnsLoop(columns_joined, 1,
                      [raised |-> FALSE, cache |-> cache, emb |-> <<>>,
                       lens |-> <<>>, hits |-> <<>>, calls |-> 0],
                      max_len, max_col_name_len, useCache, w2i, vecs, n, D),
          batch_size, max_len, max_col_name_len, lengths, D)

(* ------------------------ LaserEmbedding.forward ---------------------- *)

Code(c) == CASE c = "a" -> 1 [] c = "b" -> 2 [] c = "c" -> 3 [] OTHER -> 4

RECURSIVE TextCode(_)
TextCode(s) == IF s = <<>> THEN 0 ELSE Code(s[1]) + 5 * TextCode(Tail(s))

\* self.embedder(text, method="sentence", language='en') when it returns:
\* a vector that depends on the text only
EmbedderOutput(text, D) == [d \in 1..D |-> 10 * TextCode(text) + d]

RECURSIVE Flatten(_)
Flatten(xss) == IF xss = <<>> THEN <<>> ELSE xss[1] \o Flatten(Tail(xss))

\* the loop that gives every unseen word an index and a vector; the
\* failAt-th call of the embedder in this loop raises (0: none does)
RECURSIVE LaserGrow(_, _, _, _, _)
LaserGrow(words, k, acc, failAt, D) ==
  IF k > Len(words) \/ acc.raised THEN acc
  ELSE
    LET word == words[k] IN
    IF word \in DOMAIN acc.word2idx
    THEN LaserGrow(words, k + 1, acc, failAt, D)
    ELSE
      LET indexed == (word :> Cardinality(DOMAIN acc.word2idx))
                       @@ acc.word2idx
          counted == (word :> Get(acc.embedder_calls, word, 0) + 1)
                       @@ acc.embedder_calls
      IN
      IF acc.calls + 1 = failAt
      THEN [acc EXCEPT !.word2idx = indexed, !.embedder_calls = counted,
                       !.calls = @ + 1, !.raised = TRUE]
      ELSE LaserGrow(words, k + 1,
                     [acc EXCEPT !.word2idx = indexed,
                                 !.embedder_calls = counted,
                                 !.calls = @ + 1,
                                 !.vectors =
                                   Append(@, EmbedderOutput(word, D))],
                     failAt, D)

IsNotOne(x) == x # 1

\* torch.tensor(word_embeddings).squeeze(), then unsqueeze(0) when fewer
\* than 3 dimensions are left
SqueezeShape(shape) ==
  LET squeezed == SelectSeq(shape, IsNotOne)
  IN  IF Len(squeezed) < 3 THEN <<1>> \o squeezed ELSE squeezed

\* forward of LaserEmbedding: the result and the vocabulary it leaves
LaserForward(sentences, mean_sequence, failAt, w2i, vecs, n, calls, D) ==
  LET lowered == List([i \in 1..Len(sentences) |-> Lower(sentences[i])])
      batch_size == Len(lowered)
      sentences_words ==
        List([i \in 1..batch_size |-> word_tokenize(lowered[i])])
      lengths == List([i \in 1..batch_size |-> Len(sentences_words[i])])
      same == [word2idx |-> w2i, vectors |-> vecs, num_embeddings |-> n,
               embedder_calls |-> calls, calls |-> 0]
      unchangedFail == Raised @@ same
  IN
  IF MaxRaises(lengths) THEN unchangedFail
  ELSE
    LET max_len == MaxOf(lengths) IN
    IF mean_sequence
    THEN
      IF failAt \in 1..batch_size
      THEN [unchangedFail EXCEPT !.calls = failAt]
      ELSE [raised |-> FALSE,
            emb |-> [i \in 1..batch_size |-> EmbedderOutput(lowered[i], D)],
            shape |-> SqueezeShape(<<batch_size, D>>),
            lengths |-> lengths, indicies |-> <<>>,
            calls |-> batch_size] @@ same
    ELSE
      LET g == LaserGrow(Flatten(sentences_words), 1,
                         [word2idx |-> w2i, vectors |-> vecs,
                          embedder_calls |-> calls, calls |-> 0,
                          raised |-> FALSE], failAt, D)
          grown == [word2idx |-> g.word2idx, vectors |-> g.vectors,
                    embedder_calls |-> g.embedder_calls, calls |-> g.calls]
          indicies ==
            List([i \in 1..batch_size |->
               List([j \in 1..lengths[i] |->
                  Get(g.word2idx, sentences_words[i][j], 0)])])
      IN
      IF g.raised
      THEN Raised @@ grown @@ [num_embeddings |-> n]
      ELSE
        LET counted == grown @@
                         [num_embeddings |-> Cardinality(DOMAIN g.word2idx)]
        IN
        IF \E i \in 1..batch_size : \E j \in 1..lengths[i] :
             indicies[i][j] >= Len(g.vectors)
        THEN Raised @@ counted
        ELSE IF \E i \in 1..batch_size : lengths[i] < max_len
        THEN Raised @@ counted
        ELSE [raised |-> FALSE,
              emb |-> [i \in 1..batch_size |->
                         [j \in 1..max_len |->
                            g.vectors[indicies[i][j] + 1]]],
              shape |-> SqueezeShape(IF max_len = 0 THEN <<batch_size, 0>>
                                     ELSE <<batch_size, max_len, D>>),
              lengths |-> lengths, indicies |-> indicies] @@ counted

(* ------------------------------ inputs -------------------------------- *)

\* the batches handed to forward: none, one, two or three sentences, of
\* equal and of different token counts
SentenceBatches ==
  { <<>>,
    << <<>> >>,
    << <<"a">> >>,
    << <<"A", " ", "b">> >>,
    << <<"a">>, <<"a">> >>,
    << <<"a">>, <<"A", " ", "b">> >>,
    << <<"A", " ", "b">>, <<"b", " ", "c">> >>,
    << <<>>, <<>> >>,
    << <<"b", " ", "c">>, <<"a">>, <<"A", " ", "b">> >> }

\* "a_b c", "A", "b_", "_", ""
PhraseTokens ==
  { <<"a", "_", "b", " ", "c">>, <<"A">>, <<"b", "_">>, <<"_">>, <<>> }

HistoryBatches ==
  { <<>>,
    << <<>> >>,
    << << <<"A">> >> >>,
    << << <<"a", "_", "b", " ", "c">>, <<"b", "_">> >>, << <<"A">> >> >>,
    << <<>>, << <<"b", "_">> >> >>,
    << << <<"_">> >> >> }

\* schemas: lists of columns, a column a list of words
S_a == << << <<"a">> >> >>
S_ab == << << <<"a">>, <<"b">> >>, << <<"c">> >> >>
S_abw == << << <<"a", " ", "b">> >>, << <<"c">> >> >>
S_blank == << <<>> >>
S_none == <<>>

ColumnBatches ==
  { <<>>, <<S_none>>, <<S_a, S_none>>,
    <<S_a>>, <<S_ab>>, <<S_abw>>, <<S_blank>>,
    <<S_a, S_ab>>, <<S_ab, S_a>>, <<S_a, S_a>>, <<S_blank, S_a>>,
    <<S_abw, S_ab>> }

FewColumnBatches ==
  { <<>>, <<S_none>>, <<S_a, S_none>>, <<S_a>>, <<S_ab, S_a>> }

\* which call of the embedder within one forward raises; 0: none
FailPoints == 0..2

(* ------------------------------ states -------------------------------- *)

\* the instance GloveEmbedding(path) builds from a file it can load
GloveInit ==
  \E f \in Files :
    /\ GloveConstructs(f)
    /\ file = f
    /\ backend = "glove"
    /\ word2idx = GloveLoad(f).word2idx
    /\ vectors = GloveLoad(f).vectors
    /\ num_embeddings = Cardinality(DOMAIN GloveLoad(f).word2idx)
    /\ embedding_dim = Len(GloveLoad(f).vectors[1])
    /\ use_column_cache \in BOOLEAN
    /\ column_cache = EmptyMap
    /\ embedder_calls = EmptyMap
    /\ ret = NoCall
    /\ prev = NoCall

\* the instance LaserEmbedding() builds
LaserInit ==
  /\ file = <<>>
  /\ backend = "laser"
  /\ word2idx = EmptyMap
  /\ vectors = <<>>
  /\ num_embeddings = 1
  /\ embedding_dim = Dim
  /\ use_column_cache = TRUE
  /\ column_cache = EmptyMap
  /\ embedder_calls = EmptyMap
  /\ ret = NoCall
  /\ prev = NoCall

PrevOf(r) == IF r.op = "columns" THEN r ELSE NoCall

MkRet(op, args, mean, r) ==
  [op |-> op, args |-> args, mean |-> mean, raised |-> r.raised,
   emb |-> r.emb, shape |-> r.shape, lengths |-> r.lengths,
   indicies |-> Get(r, "indicies", <<>>),
   col_name_lengths |-> Get(r, "lens", <<>>),
   calls |-> Get(r, "calls", 0), hits |-> Get(r, "hits", <<>>)]

(* ------------------------------ actions ------------------------------- *)

\* embed: self(sentences, mean_sequence) on a GloVe instance
Embed(sentences, mean_sequence) ==
  /\ backend = "glove"
  /\ ret' = MkRet("forward", sentences, mean_sequence,
                  Forward(sentences, mean_sequence, word2idx, vectors,
                          num_embeddings, embedding_dim))
  /\ prev' = PrevOf(ret)
  /\ UNCHANGED <<backend, file, word2idx, vectors, num_embeddings,
                 embedding_dim, use_column_cache, column_cache,
                 embedder_calls>>

\* what embed_token hands back, as a call result
TokenResult(r, D) ==
  [raised |-> r.raised, emb |-> r.emb,
   shape |-> IF r.raised THEN <<>> ELSE <<1, D>>, lengths |-> <<>>]

\* embed_token(token) on a GloVe instance
EmbedTokenCall(token) ==
  /\ backend = "glove"
  /\ ret' = MkRet("embed_token", token, TRUE,
                  TokenResult(EmbedToken(token, word2idx, vectors,
                                         num_embeddings, embedding_dim),
                              embedding_dim))
  /\ prev' = PrevOf(ret)
  /\ UNCHANGED <<backend, file, word2idx, vectors, num_embeddings,
                 embedding_dim, use_column_cache, column_cache,
                 embedder_calls>>

\* get_history_emb(histories) on a GloVe instance
GetHistoryEmb(histories) ==
  /\ backend = "glove"
  /\ ret' = MkRet("history", histories, FALSE,
                  GetHistoryEmbResult(histories, word2idx, vectors,
                                      num_embeddings, embedding_dim))
  /\ prev' = PrevOf(ret)
  /\ UNCHANGED <<backend, file, word2idx, vectors, num_embeddings,
                 embedding_dim, use_column_cache, column_cache,
                 embedder_calls>>

\* get_columns_emb ends with result r: what the caller sees and the
\* cache the instance keeps
ColumnsReturn(columns, r) ==
  /\ ret' = MkRet("columns", columns, FALSE, r)
  /\ column_cache' = r.cache

\* get_columns_emb(columns) on a GloVe instance
GetColumnsEmb(columns) ==
  /\ backend = "glove"
  /\ ColumnsReturn(columns,
                   GetColumnsEmbResult(columns, column_cache,
                                       use_column_cache, word2idx, vectors,
                                       num_embeddings, embedding_dim))
  /\ prev' = PrevOf(ret)
  /\ UNCHANGED <<backend, file, word2idx, vectors, num_embeddings,
                 embedding_dim, use_column_cache, embedder_calls>>

\* forward of a LASER instance ends with result r
LaserReturn(sentences, mean_sequence, r) ==
  /\ ret' = MkRet("forward", sentences, mean_sequence, r)
  /\ word2idx' = r.word2idx
  /\ vectors' = r.vectors
  /\ num_embeddings' = r.num_embeddings
  /\ embedder_calls' = r.embedder_calls

\* self(sentences, mean_sequence) on a LASER instance
LaserEmbed(sentences, mean_sequence, failAt) ==
  /\ backend = "laser"
  /\ LaserReturn(sentences, mean_sequence,
                 LaserForward(sentences, mean_sequence, failAt, word2idx,
                              vectors, num_embeddings, embedder_calls,
                              embedding_dim))
  /\ prev' = PrevOf(ret)
  /\ UNCHANGED <<backend, file, embedding_dim, use_column_cache,
                 column_cache>>

(* --------------------------- specifications --------------------------- *)

Init == GloveInit

Next ==
  \/ \E sentences \in SentenceBatches : \E mean_sequence \in BOOLEAN :
       Embed(sentences, mean_sequence)
  \/ \E token \in PhraseTokens : EmbedTokenCall(token)
  \/ \E histories \in HistoryBatches : GetHistoryEmb(histories)
  \/ \E columns \in FewColumnBatches : GetColumnsEmb(columns)

\* a GloVe instance under every operation
Spec == Init /\ [][Next]_vars

NextCache == \E columns \in ColumnBatches : GetColumnsEmb(columns)

\* a GloVe instance under get_columns_emb
SpecCache == GloveInit /\ [][NextCache]_vars

NextLaser ==
  \E sentences \in SentenceBatches : \E mean_sequence \in BOOLEAN :
    \E failAt \in FailPoints : LaserEmbed(sentences, mean_sequence, failAt)

\* a LASER instance under forward
SpecLaser == LaserInit /\ [][NextLaser]_vars

(* ------------------------------ claims -------------------------------- *)

\* the joined column names of batch item i of a get_columns_emb call
JoinedItem(columns, i) ==
  [j \in 1..Len(columns[i]) |-> Join(columns[i][j])]

\* C1: with the column cache enabled, a get_columns_emb call whose nested
\* column list is the one of the get_columns_emb call just before it, which
\* returned, returns the same embeddings, column counts and token-count
\* matrix, serves every batch item from the cache and calls forward for
\* none of them.
C1_RepeatedCallIsCached ==
  ( /\ use_column_cache
    /\ ret.op = "columns" /\ prev.op = "columns"
    /\ ~prev.raised
    /\ ret.args = prev.args )
  => /\ ~ret.raised
     /\ ret.emb = prev.emb
     /\ ret.lengths = prev.lengths
     /\ ret.col_name_lengths = prev.col_name_lengths
     /\ ret.shape = prev.shape
     /\ ret.calls = 0
     /\ \A i \in 1..Len(ret.args) : ret.hits[i]

\* a two-item batch was embedded with forward calls and then embedded
\* again from the cache
C1_Witness ==
  /\ use_column_cache
  /\ ret.op = "columns" /\ prev.op = "columns"
  /\ ~prev.raised /\ ~ret.raised
  /\ ret.args = prev.args
  /\ Len(ret.args) = 2
  /\ prev.calls > 0
  /\ ret.calls = 0

\* C2: in a get_columns_emb call that returned, every batch item served
\* from the cache holds exactly what the miss path computes for it under
\* this call's padding: the vectors and true token counts of its columns,
\* zeros elsewhere, whatever the padding its entry was cached under; and a
\* call on a batch without empty items raises only when the miss path of
\* one of its items does.
C2_HitEqualsMiss ==
  ret.op = "columns" =>
    /\ ~ret.raised =>
         \A i \in 1..Len(ret.args) :
           ret.hits[i] =>
             LET db == JoinedItem(ret.args, i)
                 m == MissItem(db, ret.shape[2], ret.shape[3], word2idx,
                               vectors, num_embeddings, embedding_dim)
             IN  /\ ~m.raised
                 /\ ret.emb[i] = m.emb
                 /\ ret.col_name_lengths[i] = m.lens
                 /\ \A j \in 1..Len(db) :
                      ret.col_name_lengths[i][j] = Len(word_tokenize(db[j]))
    /\ ( /\ ret.raised
         /\ Len(ret.args) > 0
         /\ \A i \in 1..Len(ret.args) : Len(ret.args[i]) > 0 )
       => \E i \in 1..Len(ret.args) :
            MissItem(JoinedItem(ret.args, i), 0, 0, word2idx, vectors,
                     num_embeddings, embedding_dim).raised

\* one call served an item whose entry was cached under a larger padding
\* and an item whose entry was cached under a smaller padding
C2_Witness ==
  /\ ret.op = "columns" /\ ~ret.raised
  /\ \E i, k \in 1..Len(ret.args) :
       /\ ret.hits[i] /\ ret.hits[k]
       /\ LET ci == column_cache[PyStr(JoinedItem(ret.args, i))]
              ck == column_cache[PyStr(JoinedItem(ret.args, k))]
          IN  /\ Len(ci.emb) > ret.shape[2]
              /\ Len(ci.emb[1]) > ret.shape[3]
              /\ Len(ck.emb[1]) < ret.shape[3]
              /\ ret.col_name_lengths[i][1] > 0

\* the first line of the file that gives token t a vector of the expected
\* length, 0 if there is none
FirstKept(t) ==
  IF \E k \in 1..Len(file) :
       file[k].token = t /\ Len(file[k].vector) = ExpectedDim
  THEN CHOOSE k \in 1..Len(file) :
         /\ file[k].token = t /\ Len(file[k].vector) = ExpectedDim
         /\ \A j \in 1..(k - 1) :
              ~(file[j].token = t /\ Len(file[j].vector) = ExpectedDim)
  ELSE 0

\* C3: after GloveEmbedding is loaded, every token the file gives a vector
\* of the expected length is in word2idx with an index inside
\* [0, len(vectors)) whose row is the vector of the token's first such
\* line, and a token the file gives no such vector resolves to index 0.
C3_VocabularyRoundTrip ==
  backend = "glove" =>
    \A t \in { <<"a">>, <<"b">>, <<"c">> } :
      IF FirstKept(t) # 0
      THEN /\ t \in DOMAIN word2idx
           /\ word2idx[t] \in 0..(Len(vectors) - 1)
           /\ vectors[word2idx[t] + 1] = file[FirstKept(t)].vector
      ELSE Get(word2idx, t, 0) = 0

\* C4: len(vectors) equals num_embeddings and index 0 exists, so that
\* every index in [0, num_embeddings) has its vector.
C4_MatrixMatchesVocabulary ==
  /\ Len(vectors) = num_embeddings
  /\ num_embeddings >= 1

\* C5: in the LASER vocabulary every token of word2idx was handed to the
\* embedder exactly once, when it got the next integer index and its
\* vector was appended: the indices are 0..len-1, the store has one vector
\* per token and the vector at a token's index is the embedder's for it.
C5_EmbeddedOnceAtFirstEncounter ==
  backend = "laser" =>
    /\ DOMAIN embedder_calls = DOMAIN word2idx
    /\ \A t \in DOMAIN word2idx : embedder_calls[t] = 1
    /\ { word2idx[t] : t \in DOMAIN word2idx }
         = 0..(Cardinality(DOMAIN word2idx) - 1)
    /\ Len(vectors) = Cardinality(DOMAIN word2idx)
    /\ \A t \in DOMAIN word2idx :
         vectors[word2idx[t] + 1] = EmbedderOutput(t, embedding_dim)

\* the number of tokens of sentence i of a forward call
TokenCount(sentences, i) == Len(word_tokenize(Lower(sentences[i])))

\* C6: a forward call with mean_sequence=False on a non-empty batch that
\* returns gives a tensor whose first two dimensions are (batch size,
\* largest token count) and one length per sentence, the sentence's token
\* count, never above the second dimension; positions past a sentence's
\* length hold the zero vector.
C6_PaddedShape ==
  ( /\ ret.op = "forward" /\ ~ret.mean /\ ~ret.raised
    /\ Len(ret.args) > 0 )
  => LET B == Len(ret.args)
         counts == [i \in 1..B |-> TokenCount(ret.args, i)]
     IN  /\ Len(ret.shape) >= 2
         /\ ret.shape[1] = B
         /\ ret.shape[2] = MaxOf(counts)
         /\ Len(ret.lengths) = B
         /\ \A i \in 1..B :
              /\ ret.lengths[i] = counts[i]
              /\ ret.lengths[i] <= ret.shape[2]
              /\ \A j \in (counts[i] + 1)..Len(ret.emb[i]) :
                   ret.emb[i][j] = Zeros(embedding_dim)

\* the sum of the vectors of the true tokens of sentence i, by the table
RECURSIVE TrueSum(_, _)
TrueSum(words, d) ==
  IF words = <<>> THEN 0
  ELSE vectors[Get(word2idx, words[1], 0) + 1][d] + TrueSum(Tail(words), d)

\* every token of the batch resolves to a row of the table
LookupsInRange(sentences) ==
  \A i \in 1..Len(sentences) :
    LET words == word_tokenize(Lower(sentences[i]))
    IN  \A j \in 1..Len(words) :
          Get(word2idx, words[j], 0) < Len(vectors)

\* C7: a forward call with mean_sequence=True on a batch of B >= 1
\* sentences whose tokens all resolve to rows of the table returns, for
\* each sentence i, the sum of the vectors of its true tokens divided by
\* its own length lengths[i].
C7_MeanOverOwnLength ==
  ( /\ backend = "glove"
    /\ ret.op = "forward" /\ ret.mean
    /\ Len(ret.args) >= 1
    /\ LookupsInRange(ret.args) )
  => /\ ~ret.raised
     /\ \A i \in 1..Len(ret.args) :
          \A d \in 1..embedding_dim :
            ret.emb[i][d] =
              << TrueSum(word_tokenize(Lower(ret.args[i])), d),
                 TokenCount(ret.args, i) >>

\* the call recorded in r was handed an empty batch
EmptyBatchCall(r) ==
  \/ r.op \in {"forward", "history"} /\ Len(r.args) = 0
  \/ /\ r.op = "columns"
     /\ \/ Len(r.args) = 0
        \/ \E i \in 1..Len(r.args) : Len(r.args[i]) = 0

\* C8: every step that is a call of embed with zero sentences, of
\* get_history_emb with zero histories, or of get_columns_emb with zero
\* batch items or with an item of zero columns raises, and leaves the
\* column cache, the vocabulary and the vector store as they were.
C8_EmptyBatchRaises ==
  [][ EmptyBatchCall(ret') =>
        /\ ret'.raised
        /\ column_cache' = column_cache
        /\ word2idx' = word2idx
        /\ vectors' = vectors
        /\ num_embeddings' = num_embeddings ]_vars

\* a batch with a zero-column item raised while the cache held entries
C8_Witness ==
  /\ ret.op = "columns"
  /\ Len(ret.args) = 2
  /\ \E i \in 1..Len(ret.args) : Len(ret.args[i]) = 0
  /\ ret.raised
  /\ column_cache # EmptyMap

\* C9: a forward call on a non-empty batch that returns has max_len >= 1:
\* the sequence dimension of the padded tensor is not zero, and no mean is
\* a division by a zero length.
C9_MaxLenAtLeastOne ==
  ( /\ backend = "glove"
    /\ ret.op = "forward" /\ ~ret.raised
    /\ Len(ret.args) > 0 )
  => IF ret.mean
     THEN \A i \in 1..Len(ret.emb) :
            \A d \in 1..Len(ret.emb[i]) : ret.emb[i][d][2] # 0
     ELSE ret.shape[2] >= 1

\* C10: whatever calls of the embedder raised, every token of word2idx
\* maps to an index below len(vectors) whose stored vector is the one the
\* embedder produces for that token.
C10_ConsistentAfterEmbedderFailure ==
  backend = "laser" =>
    \A t \in DOMAIN word2idx :
      /\ word2idx[t] < Len(vectors)
      /\ vectors[word2idx[t] + 1] = EmbedderOutput(t, embedding_dim)

====
